---- MODULE Spec2Model ----
(***************************************************************************)
(* vz-rs: the create workflow (src/command/create.rs) run by concurrent    *)
(* CLI processes over one VM home directory, the stop escalation of the    *)
(* supervising process (src/vm/vm_delegate.rs), the stop command           *)
(* (src/command/stop.rs), the list command (src/command/list.rs), the      *)
(* blocking engine calls of create and ipsw, and the u64 arithmetic of the *)
(* disk size.                                                              *)
(***************************************************************************)
EXTENDS Integers, Sequences, FiniteSets, TLC

(* ------------------------------------------------------------------ *)
(* Bounds of the model                                                 *)
(* ------------------------------------------------------------------ *)

\* number of temporary directories create_temp_vm_dir can hand out
MaxTemps == 2

\* CLI processes, each started once as `vz create ...`
Procs == {"p1", "p2"}

\* vm names given on the command line
Names == {"a", "b"}

\* --disk-size values (decimal GB) the runs draw from
DiskSizes == {10, 50}

TempIds == 1..MaxTemps


(* ------------------------------------------------------------------ *)
(* State                                                               *)
(* ------------------------------------------------------------------ *)

VARIABLES
    dirs,       \* the VM home directory, the entries named after a vm: name -> directory
    tmps,       \* the VM home directory, the temporary entries: token -> directory
    nextTemp,   \* the next unused temporary directory token
    pc,         \* per create process: the statement of Create::execute it is at
    cargs,      \* per create process: the parsed command line (struct Create)
    temp,       \* per create process: temp_dir of the current call, 0 if none
    result,     \* per create process: what the last call returned
    image,      \* per create process: the restore image requirements it loaded
    existedAtStart  \* per create process: the name was initialized when the call began

createVars == <<dirs, tmps, nextTemp, pc, cargs, temp, result, image, existedAtStart>>

VARIABLES
    vmState,      \* the engine's state of the guest (VZVirtualMachine.state)
    coopCapable,  \* whether this guest can be asked to stop (fixed for the run)
    proc,         \* the supervising process: "alive" or "exited"
    exitCode,     \* the status given to process::exit, -1 while alive
    exitCause,    \* the process::exit call that ended the process
    exitCount,    \* how many times process::exit was called
    stops,        \* how many times stop_vm was invoked
    timers,       \* the exec_after blocks queued on the main queue, in order
    forceSteps,   \* how many times force_stop_vm ran
    forceIssued,  \* how many times stopWithCompletionHandler was called
    stopPending,  \* a forced stop was accepted and its completion is outstanding
    guestStops    \* how many guestDidStopVirtualMachine notifications were delivered

stopVars == <<vmState, coopCapable, proc, exitCode, exitCause, exitCount, stops, timers,
              forceSteps, forceIssued, stopPending, guestStops>>

VARIABLES
    pidFile,      \* the pid marker in the directory of the vm the supervisor runs
    cpc,          \* the stop command: the statement of Stop::execute it is at
    sname,        \* the stop command: its name argument
    havePid,      \* the stop command: dir.pid() of line 25 gave a pid
    attempts,     \* the stop command: the counter of wait_until_stopped
    signals,      \* how many times the stop command called libc::kill
    sleeps,       \* how many times the stop command slept
    sresult       \* what the stop command returned

cliVars == <<pidFile, cpc, sname, havePid, attempts, signals, sleeps, sresult>>

VARIABLES
    homeExists,   \* the list command: the vm home directory exists
    home,         \* the list command: the entries of the vm home directory
    lpc,          \* the list command: the statement of List::execute it is at
    unread,       \* the list command: the entries read_dir has not yet given
    rows,         \* the list command: the rows it printed
    lresult       \* what the list command returned

listVars == <<homeExists, home, lpc, unread, rows, lresult>>

VARIABLES
    calls,        \* the bridged engine calls: per call its position, channel and result
    chanQ,        \* per channel: the messages sent and not yet received
    chanSent,     \* per channel: how many messages were ever sent on it
    nextChan      \* the next channel std::sync::mpsc::channel() makes

bridgeVars == <<calls, chanQ, chanSent, nextChan>>

VARIABLES
    sizeArg,      \* the --disk-size argument, a u64 as eight bytes, low byte first
    build,        \* whether the build checks arithmetic overflow
    dpc,          \* the position of the create that sizes the disk
    setLen        \* the length given to resize, a u64 as eight bytes, low byte first

diskVars == <<sizeArg, build, dpc, setLen>>

toolVars == <<cliVars, listVars, bridgeVars, diskVars>>

vars == <<createVars, stopVars, toolVars>>

(* ------------------------------------------------------------------ *)
(* VmConfig and VmDir                                                  *)
(* ------------------------------------------------------------------ *)

NoConfig ==
    [os |-> "-", cpu |-> 0, memoryMiB |-> 0, mac_address |-> 0,
     rosetta |-> "None", hardware_model |-> "None", machine_identifier |-> "None"]

\* a directory that does not exist
NoDir == [exists |-> FALSE, inode |-> 0, disk |-> FALSE, diskLen |-> <<0, 0>>,
          nvram |-> "none", config |-> NoConfig]

\* a directory just made by create_dir_all: no files in it
EmptyDir(id) == [NoDir EXCEPT !.exists = TRUE, !.inode = id]

\* VmDir::initialized: the directory holds a config file
initialized(d) == d.exists /\ d.config /= NoConfig

\* vm_dir::vm_dir(name): the final directory of a vm is the entry called name
vm_dir(name) == name

\* a directory holding no file at all (rename may replace it)
IsEmptyDir(d) == d.exists /\ ~d.disk /\ d.nvram = "none" /\ d.config = NoConfig

\* Create::execute line 60: disk_size * 1_000_000_000, as <<billions, rest>>; exact
\* for the sizes of DiskSizes, the product in u64 for any size is wrapping_mul below
DiskBytes(disk_size) == <<disk_size, 0>>

(* ------------------------------------------------------------------ *)
(* Results                                                             *)
(* ------------------------------------------------------------------ *)

NoResult == [kind |-> "none", why |-> "none"]
Ok == [kind |-> "Ok", why |-> "none"]
Err(kind, why) == [kind |-> kind, why |-> why]

\* the command line of one `create` call
CreateArgs ==
    [name : Names, os : {"Linux", "MacOs"}, ipsw : {"None", "Missing", "Exists"},
     disk_size : DiskSizes]

NoArgs == [name |-> "a", os |-> "Linux", ipsw |-> "None", disk_size |-> 50]

\* what mostFeaturefulSupportedConfiguration of a loaded restore image can ask for
ImageReqs ==
    { [hardware_model |-> "hm1", minCpu |-> 2, minMemoryMiB |-> 4096],
      [hardware_model |-> "hm2", minCpu |-> 6, minMemoryMiB |-> 16384] }

NoImage == [hardware_model |-> "-", minCpu |-> 0, minMemoryMiB |-> 0]

Max(a, b) == IF a >= b THEN a ELSE b

\* random_mac_address: a value no earlier call was given, here the call's own token
random_mac_address(p) == temp[p]

\* create_linux with the model fields of create_macos pasted in
LinuxConfigWithModel(mac) ==
    [os |-> "Linux", cpu |-> 1, memoryMiB |-> 1024, mac_address |-> mac,
     rosetta |-> "Some(false)", hardware_model |-> "hm1", machine_identifier |-> "mid"]

\* create_linux lines 106-115
LinuxConfig(mac) ==
    [os |-> "Linux", cpu |-> 1, memoryMiB |-> 1024, mac_address |-> mac,
     rosetta |-> "Some(false)", hardware_model |-> "None", machine_identifier |-> "None"]

\* create_macos lines 157-166
MacOsConfig(req, mac) ==
    [os |-> "MacOs", cpu |-> Max(4, req.minCpu), memoryMiB |-> Max(8 * 1024, req.minMemoryMiB),
     mac_address |-> mac, rosetta |-> "None",
     hardware_model |-> req.hardware_model, machine_identifier |-> "mid"]

(* ------------------------------------------------------------------ *)
(* Create::execute                                                     *)
(* ------------------------------------------------------------------ *)

\* Create::validate without the macOS requirement
validateNothing(a) == Ok

\* Create::validate
validate(a) ==
    IF a.os = "MacOs"
    THEN CASE a.ipsw = "None" -> Err("ValidationError", "ipsw_required")
           [] a.ipsw = "Missing" -> Err("ValidationError", "ipsw_not_found")
           [] OTHER -> Ok
    ELSE Ok

\* Create::execute without the check of lines 55-57
AlreadyExistsNever(p) == FALSE

\* Create::execute line 55: dir.initialized() of the requested name
AlreadyExists(p) == initialized(dirs[vm_dir(cargs[p].name)])

\* the statements in another order: the rename of line 69 before save_config
NextStepRenameEarly(os, step) ==
    CASE step = "check" -> "create_temp"
      [] step = "create_temp" -> "resize"
      [] step = "resize" -> IF os = "Linux" THEN "nvram" ELSE "load_image"
      [] step = "load_image" -> "nvram"
      [] step = "nvram" -> "rename"
      [] step = "rename" -> "save_config"
      [] step = "save_config" -> "done"

\* the order of the statements of Create::execute, create_linux and create_macos
NextStep(os, step) ==
    CASE step = "check" -> "create_temp"
      [] step = "create_temp" -> "resize"
      [] step = "resize" -> IF os = "Linux" THEN "nvram" ELSE "load_image"
      [] step = "load_image" -> "nvram"
      [] step = "nvram" -> "save_config"
      [] step = "save_config" -> "rename"
      [] step = "rename" -> "done"

InFlight == {"check", "create_temp", "resize", "load_image", "nvram", "save_config", "rename"}

\* the call goes on to its next statement, or returns Ok(()) after the last
Advance(p) ==
    LET n == NextStep(cargs[p].os, pc[p]) IN
    /\ pc' = [pc EXCEPT ![p] = n]
    /\ result' = [result EXCEPT ![p] = IF n = "done" THEN Ok ELSE NoResult]

\* the call returns Err(e) through `?`
Fail(p, e) ==
    /\ pc' = [pc EXCEPT ![p] = "failed"]
    /\ result' = [result EXCEPT ![p] = e]

\* temp_dir still names an existing directory
WorkDirExists(p) == temp[p] /= 0 /\ tmps[temp[p]].exists

\* a process is started as `vz create ...`: Create::execute line 51, self.validate()?
Begin(p, a) ==
    /\ pc[p] = "idle"
    /\ cargs' = [cargs EXCEPT ![p] = a]
    /\ temp' = [temp EXCEPT ![p] = 0]
    /\ image' = [image EXCEPT ![p] = NoImage]
    /\ existedAtStart' = [existedAtStart EXCEPT ![p] = initialized(dirs[vm_dir(a.name)])]
    /\ IF validate(a) = Ok
       THEN /\ pc' = [pc EXCEPT ![p] = "check"]
            /\ result' = [result EXCEPT ![p] = NoResult]
       ELSE /\ pc' = [pc EXCEPT ![p] = "failed"]
            /\ result' = [result EXCEPT ![p] = validate(a)]
    /\ UNCHANGED <<dirs, tmps, nextTemp, stopVars, toolVars>>

\* Create::execute lines 53-57
CheckInitialized(p) ==
    /\ pc[p] = "check"
    /\ IF AlreadyExists(p)
       THEN Fail(p, Err("ValidationError", "already_exists"))
       ELSE Advance(p)
    /\ UNCHANGED <<dirs, tmps, nextTemp, cargs, temp, image, existedAtStart, stopVars, toolVars>>

\* Create::execute line 59: vm_dir::create_temp_vm_dir()?
CreateTemp(p) ==
    /\ pc[p] = "create_temp"
    /\ \/ /\ nextTemp <= MaxTemps
          /\ tmps' = [tmps EXCEPT ![nextTemp] = EmptyDir(nextTemp)]
          /\ temp' = [temp EXCEPT ![p] = nextTemp]
          /\ nextTemp' = nextTemp + 1
          /\ Advance(p)
       \/ /\ Fail(p, Err("IoError", "create_temp"))
          /\ UNCHANGED <<tmps, temp, nextTemp>>
    /\ UNCHANGED <<dirs, cargs, image, existedAtStart, stopVars, toolVars>>

\* Create::execute line 60: temp_dir.resize(self.disk_size * 1_000_000_000)?
Resize(p) ==
    /\ pc[p] = "resize"
    /\ \/ /\ WorkDirExists(p)
          /\ tmps' = [tmps EXCEPT ![temp[p]].disk = TRUE,
                                  ![temp[p]].diskLen = DiskBytes(cargs[p].disk_size)]
          /\ Advance(p)
       \/ /\ Fail(p, Err("IoError", "resize"))
          /\ UNCHANGED tmps
    /\ UNCHANGED <<dirs, nextTemp, cargs, temp, image, existedAtStart, stopVars, toolVars>>

\* Create::execute line 64 and create_macos lines 122-128
LoadImage(p) ==
    /\ pc[p] = "load_image"
    /\ IF cargs[p].ipsw = "None"
       THEN \* self.ipsw.as_ref().unwrap() panics
            /\ pc' = [pc EXCEPT ![p] = "panicked"]
            /\ result' = [result EXCEPT ![p] = Err("Panic", "unwrap")]
            /\ UNCHANGED image
       ELSE \/ \E req \in ImageReqs :
                 /\ image' = [image EXCEPT ![p] = req]
                 /\ Advance(p)
            \/ /\ Fail(p, Err("EngineError", "load_image"))
               /\ UNCHANGED image
            \/ /\ Fail(p, Err("ValidationError", "image_not_supported"))
               /\ UNCHANGED image
    /\ UNCHANGED <<dirs, tmps, nextTemp, cargs, temp, existedAtStart, stopVars, toolVars>>

\* create_linux lines 94-103, create_macos lines 130-148: the engine writes nvram.bin
Nvram(p) ==
    /\ pc[p] = "nvram"
    /\ \/ /\ WorkDirExists(p)
          /\ tmps' = [tmps EXCEPT ![temp[p]].nvram =
                        IF cargs[p].os = "Linux" THEN "efi" ELSE image[p].hardware_model]
          /\ Advance(p)
       \/ /\ Fail(p, Err("EngineError", "nvram"))
          /\ UNCHANGED tmps
    /\ UNCHANGED <<dirs, nextTemp, cargs, temp, image, existedAtStart, stopVars, toolVars>>

\* create_linux lines 105-116, create_macos lines 150-167: dir.save_config(&config)?
SaveConfig(p) ==
    /\ pc[p] = "save_config"
    /\ \/ /\ WorkDirExists(p)
          /\ tmps' = [tmps EXCEPT ![temp[p]].config =
                          IF cargs[p].os = "Linux" THEN LinuxConfig(random_mac_address(p))
                          ELSE MacOsConfig(image[p], random_mac_address(p))]
          /\ Advance(p)
       \/ /\ Fail(p, Err("IoError", "save_config"))
          /\ UNCHANGED tmps
    /\ UNCHANGED <<dirs, nextTemp, cargs, temp, image, existedAtStart, stopVars, toolVars>>

\* a rename that replaces whatever is at `to`
CanRenameOver(from, to) == from.exists

\* fs::rename(from, to) of directories succeeds iff `from` exists and `to` is absent
\* or an empty directory; a `to` that holds files makes the call fail (ENOTEMPTY)
CanRename(from, to) == from.exists /\ (~to.exists \/ IsEmptyDir(to))

\* Create::execute lines 67-72
Rename(p) ==
    /\ pc[p] = "rename"
    /\ temp[p] /= 0
    /\ LET to == vm_dir(cargs[p].name) IN
       \/ /\ CanRename(tmps[temp[p]], dirs[to])
          /\ dirs' = [dirs EXCEPT ![to] = tmps[temp[p]]]
          /\ tmps' = [tmps EXCEPT ![temp[p]] = NoDir]
          /\ Advance(p)
       \/ /\ ~CanRename(tmps[temp[p]], dirs[to])
          /\ Fail(p, Err("IoError", IF dirs[to].exists THEN "rename_not_empty" ELSE "rename"))
          /\ UNCHANGED <<dirs, tmps>>
       \/ /\ Fail(p, Err("IoError", "rename"))
          /\ UNCHANGED <<dirs, tmps>>
    /\ UNCHANGED <<nextTemp, cargs, temp, image, existedAtStart, stopVars, toolVars>>

\* the process running `create` is killed between two statements
Interrupt(p) ==
    /\ pc[p] \in InFlight
    /\ pc' = [pc EXCEPT ![p] = "interrupted"]
    /\ result' = [result EXCEPT ![p] = NoResult]
    /\ UNCHANGED <<dirs, tmps, nextTemp, cargs, temp, image, existedAtStart, stopVars, toolVars>>

CreateInit ==
    /\ dirs = [n \in Names |-> NoDir]
    /\ tmps = [t \in TempIds |-> NoDir]
    /\ nextTemp = 1
    /\ pc = [p \in Procs |-> "idle"]
    /\ cargs = [p \in Procs |-> NoArgs]
    /\ temp = [p \in Procs |-> 0]
    /\ result = [p \in Procs |-> NoResult]
    /\ image = [p \in Procs |-> NoImage]
    /\ existedAtStart = [p \in Procs |-> FALSE]

CreateNext ==
    \/ \E p \in Procs, a \in CreateArgs : Begin(p, a)
    \/ \E p \in Procs : CheckInitialized(p)
    \/ \E p \in Procs : CreateTemp(p)
    \/ \E p \in Procs : Resize(p)
    \/ \E p \in Procs : LoadImage(p)
    \/ \E p \in Procs : Nvram(p)
    \/ \E p \in Procs : SaveConfig(p)
    \/ \E p \in Procs : Rename(p)
    \/ \E p \in Procs : Interrupt(p)

(* ------------------------------------------------------------------ *)
(* The supervising process: start_vm, stop_vm and the delegate         *)
(* ------------------------------------------------------------------ *)

\* stop_vm line 87: Duration::from_secs(15)
TimeoutSecs == 15

\* how many times stop_vm is invoked in one run
MaxStops == 2

\* VZVirtualMachine.canRequestStop: the guest runs and can be asked to stop
canRequestStop == vmState = "running" /\ coopCapable

\* VZVirtualMachine.canStop: the guest is in a state that can be stopped
canStop == vmState = "running"

\* process::exit(code)
Exit(code, cause) ==
    /\ proc' = "exited"
    /\ exitCode' = code
    /\ exitCause' = cause
    /\ exitCount' = exitCount + 1

NoExit == UNCHANGED <<proc, exitCode, exitCause, exitCount>>

\* an exec_after block queued with a delay in milliseconds taken for seconds
ArmTimerAtOnce(ts) == Append(ts, [left |-> 0, age |-> 0])

\* stop_vm that queues no block after a stop request the engine took
ArmTimerNever(ts) == ts

\* stop_vm line 87: Queue::main().exec_after(Duration::from_secs(15), ...)
ArmTimer(ts) == Append(ts, [left |-> TimeoutSecs, age |-> 0])

\* force_stop_vm with no test of canStop
ForceGuardNone == TRUE

\* force_stop_vm that takes every guest for not stoppable
ForceGuardNever == FALSE

\* force_stop_vm line 112: if unsafe { vm.canStop() }
ForceGuard == canStop

\* force_stop_vm with a success status in its else branch
NotStoppableExitsZero == Exit(0, "not_stoppable")

\* force_stop_vm lines 125-127: process::exit(1)
NotStoppable == Exit(1, "not_stoppable")

\* force_stop_vm lines 108-129
force_stop_vm ==
    /\ forceSteps' = forceSteps + 1
    /\ IF ForceGuard
       THEN /\ forceIssued' = forceIssued + 1
            /\ vmState' = "stopping"
            /\ stopPending' = TRUE
            /\ NoExit
       ELSE /\ NotStoppable
            /\ UNCHANGED <<forceIssued, vmState, stopPending>>

\* start_vm lines 65-81: vm.startWithCompletionHandler(block)
start_vm ==
    /\ proc = "alive"
    /\ vmState = "stopped"
    /\ vmState' = "starting"
    /\ NoExit
    /\ UNCHANGED <<coopCapable, stops, timers, forceSteps, forceIssued, stopPending, guestStops,
                   createVars, toolVars>>

\* start_vm lines 69-76: the completion handler of the start
StartCompletion(err) ==
    /\ proc = "alive"
    /\ vmState = "starting"
    /\ IF err
       THEN vmState' = "error" /\ Exit(1, "start_failed")
       ELSE vmState' = "running" /\ NoExit
    /\ UNCHANGED <<coopCapable, stops, timers, forceSteps, forceIssued, stopPending, guestStops,
                   createVars, toolVars>>

\* stop_vm lines 83-92 with request_stop_vm lines 94-106; err is the outcome of
\* requestStopWithError
stop_vm(err) ==
    /\ proc = "alive"
    /\ stops < MaxStops
    /\ stops' = stops + 1
    /\ IF canRequestStop
       THEN IF err
            THEN /\ Exit(1, "request_stop_failed")
                 /\ UNCHANGED <<timers, forceSteps, forceIssued, vmState, stopPending>>
            ELSE /\ timers' = ArmTimer(timers)
                 /\ NoExit
                 /\ UNCHANGED <<forceSteps, forceIssued, vmState, stopPending>>
       ELSE /\ ~err
            /\ force_stop_vm
            /\ UNCHANGED timers
    /\ UNCHANGED <<coopCapable, guestStops,
                   createVars, toolVars>>

\* the exec_after block of stop_vm line 87 runs: force_stop_vm(vm)
TimerFire ==
    /\ proc = "alive"
    /\ timers /= <<>>
    /\ Head(timers).left = 0
    /\ timers' = Tail(timers)
    /\ force_stop_vm
    /\ UNCHANGED <<coopCapable, stops, guestStops,
                   createVars, toolVars>>

\* the completion handler of the forced stop with one status for both outcomes
ForceStopFailedExitsZero == Exit(0, "force_stop_failed")

\* force_stop_vm lines 117-119: process::exit(1)
ForceStopFailed == Exit(1, "force_stop_failed")

\* force_stop_vm lines 113-121: the completion handler of the forced stop
StopCompletion(err) ==
    /\ proc = "alive"
    /\ stopPending
    /\ stopPending' = FALSE
    /\ IF err
       THEN /\ ForceStopFailed
            /\ UNCHANGED vmState
       ELSE /\ Exit(0, "force_stopped")
            /\ vmState' = "stopped"
    /\ UNCHANGED <<coopCapable, stops, timers, forceSteps, forceIssued, guestStops,
                   createVars, toolVars>>

\* guest_did_stop_virtual_machine that only logs
GuestStoppedLogsOnly == NoExit

\* guest_did_stop_virtual_machine that reports the stop as a failure
GuestStoppedExitsOne == Exit(1, "guest_stopped")

\* guest_did_stop_virtual_machine lines 40-43: process::exit(0)
GuestStoppedExit == Exit(0, "guest_stopped")

\* VMDelegate guestDidStopVirtualMachine: lines 39-43
guest_did_stop_virtual_machine ==
    /\ proc = "alive"
    /\ vmState \in {"running", "stopping"}
    /\ vmState' = "stopped"
    /\ guestStops' = guestStops + 1
    /\ GuestStoppedExit
    /\ UNCHANGED <<coopCapable, stops, timers, forceSteps, forceIssued, stopPending,
                   createVars, toolVars>>

\* VMDelegate virtualMachine:didStopWithError: lines 45-49
virtual_machine_did_stop_with_error ==
    /\ proc = "alive"
    /\ vmState \in {"running", "stopping"}
    /\ vmState' = "error"
    /\ Exit(1, "stopped_with_error")
    /\ UNCHANGED <<coopCapable, stops, timers, forceSteps, forceIssued, stopPending, guestStops,
                   createVars, toolVars>>

\* VMDelegate virtualMachine:networkDevice:attachmentWasDisconnectedWithError: lines 51-55
network_disconnected ==
    /\ proc = "alive"
    /\ vmState \in {"running", "stopping"}
    /\ Exit(1, "network_disconnected")
    /\ UNCHANGED <<vmState, coopCapable, stops, timers, forceSteps, forceIssued, stopPending,
                   guestStops, createVars, toolVars>>

\* one unit of time passes: every queued block is one unit nearer to its deadline
Tick ==
    /\ \E i \in 1..Len(timers) : timers[i].left > 0 \/ timers[i].age < TimeoutSecs
    /\ timers' = [i \in 1..Len(timers) |->
                    [left |-> IF timers[i].left > 0 THEN timers[i].left - 1 ELSE 0,
                     age |-> IF timers[i].age < TimeoutSecs THEN timers[i].age + 1
                             ELSE TimeoutSecs]]
    /\ UNCHANGED <<vmState, coopCapable, proc, exitCode, exitCause, exitCount, stops,
                   forceSteps, forceIssued, stopPending, guestStops, createVars, toolVars>>

StopInit ==
    /\ vmState = "stopped"
    /\ coopCapable \in BOOLEAN
    /\ proc = "alive"
    /\ exitCode = -1
    /\ exitCause = "none"
    /\ exitCount = 0
    /\ stops = 0
    /\ timers = <<>>
    /\ forceSteps = 0
    /\ forceIssued = 0
    /\ stopPending = FALSE
    /\ guestStops = 0

StopNext ==
    \/ start_vm
    \/ \E err \in BOOLEAN : StartCompletion(err)
    \/ \E err \in BOOLEAN : stop_vm(err)
    \/ TimerFire
    \/ \E err \in BOOLEAN : StopCompletion(err)
    \/ guest_did_stop_virtual_machine
    \/ virtual_machine_did_stop_with_error
    \/ network_disconnected
    \/ Tick

(* ------------------------------------------------------------------ *)
(* The stop command: Stop::execute and wait_until_stopped              *)
(* ------------------------------------------------------------------ *)

\* wait_until_stopped line 37: while attempts < 20
MaxAttempts == 20

\* the vm the supervising process runs
RunName == "a"

\* the directory a completed create of a Linux vm leaves at the final path
LinuxVm(id, disk_size) ==
    [exists |-> TRUE, inode |-> id, disk |-> TRUE, diskLen |-> DiskBytes(disk_size),
     nvram |-> "efi", config |-> LinuxConfig(id)]

\* VmDir::pid: the marker is there and the process it records is alive
pid(name) == name = RunName /\ pidFile /\ proc = "alive"

StopErr(why) == Err("Exception", why)

\* the stop command returns
StopReturn(r) ==
    /\ cpc' = IF r = Ok THEN "ok" ELSE "failed"
    /\ sresult' = r

\* Stop::execute lines 19-23
StopExecute(name) ==
    /\ cpc = "idle"
    /\ sname' = name
    /\ IF ~initialized(dirs[vm_dir(name)])
       THEN StopReturn(StopErr("not_initialized"))
       ELSE cpc' = "pid" /\ UNCHANGED sresult
    /\ UNCHANGED <<pidFile, havePid, attempts, signals, sleeps, createVars, stopVars, listVars, bridgeVars, diskVars>>

\* Stop::execute that goes on to the signal whatever dir.pid() gave
StopGetPidUnchecked ==
    /\ cpc = "pid"
    /\ havePid' = pid(sname)
    /\ cpc' = "kill"
    /\ UNCHANGED <<pidFile, sname, attempts, signals, sleeps, sresult, createVars, stopVars, listVars, bridgeVars, diskVars>>

\* Stop::execute line 25: dir.pid().ok_or_else(...)?
StopGetPid ==
    /\ cpc = "pid"
    /\ havePid' = pid(sname)
    /\ IF pid(sname)
       THEN cpc' = "kill" /\ UNCHANGED sresult
       ELSE StopReturn(StopErr("not_running"))
    /\ UNCHANGED <<pidFile, sname, attempts, signals, sleeps, createVars, stopVars, listVars, bridgeVars, diskVars>>

\* Stop::execute lines 26-31 and wait_until_stopped line 36
StopKill ==
    /\ cpc = "kill"
    /\ signals' = signals + 1
    /\ attempts' = 0
    /\ cpc' = "sleep"
    /\ UNCHANGED <<pidFile, sname, havePid, sleeps, sresult, createVars, stopVars, listVars, bridgeVars, diskVars>>

\* a loop that goes round once more
LoopGuardOffByOne(a) == a <= MaxAttempts

\* wait_until_stopped line 37: while attempts < 20
LoopGuard(a) == a < MaxAttempts

\* wait_until_stopped line 38: sleep(Duration::from_secs(1))
StopSleep ==
    /\ cpc = "sleep"
    /\ sleeps' = sleeps + 1
    /\ cpc' = "poll"
    /\ UNCHANGED <<pidFile, sname, havePid, attempts, signals, sresult, createVars, stopVars, listVars, bridgeVars, diskVars>>

\* a stop command that signals the supervisor again when it gives up
GiveUpSignalsAgain ==
    /\ StopReturn(StopErr("failed_to_stop"))
    /\ signals' = signals + 1

\* wait_until_stopped line 45: Err(Exception::new("failed to stop vm"))
GiveUp ==
    /\ StopReturn(StopErr("failed_to_stop"))
    /\ UNCHANGED signals

\* wait_until_stopped lines 39-45: the poll, the count and the test of the loop
StopPoll ==
    /\ cpc = "poll"
    /\ IF ~pid(sname)
       THEN /\ StopReturn(Ok)
            /\ UNCHANGED <<attempts, signals>>
       ELSE /\ attempts' = attempts + 1
            /\ IF LoopGuard(attempts + 1)
               THEN cpc' = "sleep" /\ UNCHANGED <<sresult, signals>>
               ELSE GiveUp
    /\ UNCHANGED <<pidFile, sname, havePid, sleeps, createVars, stopVars, listVars, bridgeVars, diskVars>>

\* the supervising process records its process id in the directory of its vm
WritePid ==
    /\ proc = "alive"
    /\ ~pidFile
    /\ pidFile' = TRUE
    /\ UNCHANGED <<cpc, sname, havePid, attempts, signals, sleeps, sresult, createVars, stopVars, listVars, bridgeVars, diskVars>>

\* the supervising process takes a SIGINT: its handler calls stop_vm
SigintHandler(err) ==
    /\ signals > stops
    /\ stop_vm(err)

\* no stop command runs
CliIdle ==
    /\ pidFile = FALSE
    /\ cpc = "idle"
    /\ sname = RunName
    /\ havePid = FALSE
    /\ attempts = 0
    /\ signals = 0
    /\ sleeps = 0
    /\ sresult = NoResult

StopCliNext ==
    \/ \E name \in Names : StopExecute(name)
    \/ StopGetPid
    \/ StopKill
    \/ StopSleep
    \/ StopPoll
    \/ WritePid
    \/ \E err \in BOOLEAN : SigintHandler(err)
    \/ start_vm
    \/ \E err \in BOOLEAN : StartCompletion(err)
    \/ TimerFire
    \/ \E err \in BOOLEAN : StopCompletion(err)
    \/ guest_did_stop_virtual_machine
    \/ virtual_machine_did_stop_with_error
    \/ network_disconnected
    \/ Tick

(* ------------------------------------------------------------------ *)
(* The list command: List::execute                                     *)
(* ------------------------------------------------------------------ *)

\* the names the entries of the home directory go by
ListEntries == {"a", "b", "t1"}

\* a config.json that is there and does not deserialize
MalformedConfig == [NoConfig EXCEPT !.os = "?"]

\* the directory a completed create of a macOS vm leaves at the final path
MacOsVm(id, disk_size) ==
    [exists |-> TRUE, inode |-> id, disk |-> TRUE, diskLen |-> DiskBytes(disk_size),
     nvram |-> "hm1", config |-> MacOsConfig(CHOOSE r \in ImageReqs : r.hardware_model = "hm1", id)]

\* what an entry of the home directory can be: nothing, a plain file, a directory
\* a create left unfinished, a vm (stopped or running), a vm directory whose
\* config does not deserialize, a vm directory whose disk image is gone
EntryKinds ==
    { [is_dir |-> FALSE, dir |-> NoDir, running |-> FALSE],
      [is_dir |-> FALSE, dir |-> EmptyDir(1), running |-> FALSE],
      [is_dir |-> TRUE, dir |-> EmptyDir(1), running |-> FALSE],
      [is_dir |-> TRUE, dir |-> [EmptyDir(1) EXCEPT !.disk = TRUE], running |-> FALSE],
      [is_dir |-> TRUE, dir |-> LinuxVm(1, 10), running |-> FALSE],
      [is_dir |-> TRUE, dir |-> LinuxVm(1, 10), running |-> TRUE],
      [is_dir |-> TRUE, dir |-> MacOsVm(1, 50), running |-> FALSE],
      [is_dir |-> TRUE, dir |-> [LinuxVm(1, 10) EXCEPT !.config = MalformedConfig],
       running |-> FALSE],
      [is_dir |-> TRUE, dir |-> [LinuxVm(1, 10) EXCEPT !.disk = FALSE], running |-> FALSE] }

\* an entry that is not there is a record of EntryKinds too: the first
NoEntry == [is_dir |-> FALSE, dir |-> NoDir, running |-> FALSE]

\* list.rs lines 47-52
to_string(os) == IF os = "Linux" THEN "linux" ELSE "macOS"

\* VmDir::load_config: Ok unless config.json does not deserialize
LoadConfigFails(d) == d.config = MalformedConfig

\* dir.disk_path.metadata(): Ok unless the disk image is not there
MetadataFails(d) == ~d.disk

\* List::execute lines 25-38: the row of an entry
Row(e) ==
    [name |-> e, os |-> to_string(home[e].dir.config.os), cpu |-> home[e].dir.config.cpu,
     status |-> IF home[e].running THEN "running" ELSE "stopped"]

ListErr(why) == Err("Exception", why)

\* List::execute lines 15-20
ListExecute ==
    /\ lpc = "idle"
    /\ IF ~homeExists
       THEN /\ lpc' = "returned"
            /\ lresult' = ListErr("home_missing")
            /\ UNCHANGED unread
       ELSE /\ lpc' = "scan"
            /\ unread' = {e \in ListEntries : home[e] /= NoEntry}
            /\ UNCHANGED lresult
    /\ UNCHANGED <<homeExists, home, rows, createVars, stopVars, cliVars, bridgeVars, diskVars>>

\* List::execute lines 21-40: one round of the loop, for the entry read_dir gives
ListNextEntry(e) ==
    /\ lpc = "scan"
    /\ e \in unread
    /\ unread' = unread \ {e}
    /\ IF home[e].is_dir /\ initialized(home[e].dir)
       THEN IF LoadConfigFails(home[e].dir)
            THEN /\ lpc' = "returned"
                 /\ lresult' = ListErr("load_config")
                 /\ UNCHANGED rows
            ELSE IF MetadataFails(home[e].dir)
                 THEN /\ lpc' = "returned"
                      /\ lresult' = ListErr("metadata")
                      /\ UNCHANGED rows
                 ELSE /\ rows' = rows \cup {Row(e)}
                      /\ UNCHANGED <<lpc, lresult>>
       ELSE UNCHANGED <<lpc, lresult, rows>>
    /\ UNCHANGED <<homeExists, home, createVars, stopVars, cliVars, bridgeVars, diskVars>>

\* List::execute lines 21 and 43: next_entry gives None, Ok(())
ListReturn ==
    /\ lpc = "scan"
    /\ unread = {}
    /\ lpc' = "returned"
    /\ lresult' = Ok
    /\ UNCHANGED <<homeExists, home, unread, rows, createVars, stopVars, cliVars, bridgeVars,
                   diskVars>>

\* no list command runs
ListIdle ==
    /\ homeExists = TRUE
    /\ home = [e \in ListEntries |-> NoEntry]
    /\ lpc = "idle"
    /\ unread = {}
    /\ rows = {}
    /\ lresult = NoResult

ListNext ==
    \/ ListExecute
    \/ \E e \in ListEntries : ListNextEntry(e)
    \/ ListReturn

(* ------------------------------------------------------------------ *)
(* Blocking on an engine call: load_mac_os_restore_image, Ipsw::execute *)
(* ------------------------------------------------------------------ *)

\* how many bridged calls are made in a run
MaxCalls == 3

Calls == 1..MaxCalls

ChanIds == 1..MaxCalls

\* the two places that block on an engine call
Sites == {"loadFileURL", "fetchLatestSupported"}

\* what the engine hands to a completion handler: a value or an error, the other null
EngineOutcomes ==
    { [value |-> "v1", error |-> "null"],
      [value |-> "null", error |-> "e1"] }

NoOutcome == [value |-> "null", error |-> "null"]

NoMsg == [kind |-> "none", val |-> "null"]

NoCall == [pc |-> "idle", site |-> "-", chan |-> 0, outcome |-> NoOutcome, result |-> NoMsg]

\* a completion handler with no else: after the error it sends the value too
CallbackSendsBoth(out) ==
    IF out.error /= "null"
    THEN << [kind |-> "Err", val |-> out.error], [kind |-> "Ok", val |-> out.value] >>
    ELSE << [kind |-> "Ok", val |-> out.value] >>

\* create.rs lines 179-186, ipsw.rs lines 16-24: what the completion handler sends
CallbackSends(out) ==
    IF out.error /= "null"
    THEN << [kind |-> "Err", val |-> out.error] >>
    ELSE << [kind |-> "Ok", val |-> out.value] >>

\* create.rs lines 177-188, ipsw.rs lines 15-27: channel(), the block that owns tx,
\* and the engine call that takes the block
BridgeCall(c, site) ==
    /\ calls[c].pc = "idle"
    /\ nextChan <= MaxCalls
    /\ calls' = [calls EXCEPT ![c] = [NoCall EXCEPT !.pc = "waiting", !.site = site,
                                                     !.chan = nextChan]]
    /\ nextChan' = nextChan + 1
    /\ UNCHANGED <<chanQ, chanSent, createVars, stopVars, cliVars, listVars, diskVars>>

\* the engine runs the completion handler of a call, once
CompletionHandler(c, out) ==
    /\ calls[c].pc = "waiting"
    /\ calls[c].outcome = NoOutcome
    /\ LET ch == calls[c].chan IN
       /\ chanQ' = [chanQ EXCEPT ![ch] = chanQ[ch] \o CallbackSends(out)]
       /\ chanSent' = [chanSent EXCEPT ![ch] = chanSent[ch] + Len(CallbackSends(out))]
    /\ calls' = [calls EXCEPT ![c].outcome = out]
    /\ UNCHANGED <<nextChan, createVars, stopVars, cliVars, listVars, diskVars>>

\* create.rs line 189, ipsw.rs line 28: rx.recv()?? returns when a message is there
Recv(c) ==
    /\ calls[c].pc = "waiting"
    /\ chanQ[calls[c].chan] /= <<>>
    /\ calls' = [calls EXCEPT ![c].pc = "returned",
                              ![c].result = Head(chanQ[calls[c].chan])]
    /\ chanQ' = [chanQ EXCEPT ![calls[c].chan] = Tail(chanQ[calls[c].chan])]
    /\ UNCHANGED <<chanSent, nextChan, createVars, stopVars, cliVars, listVars, diskVars>>

\* no bridged call has been made
BridgeIdle ==
    /\ calls = [c \in Calls |-> NoCall]
    /\ chanQ = [ch \in ChanIds |-> <<>>]
    /\ chanSent = [ch \in ChanIds |-> 0]
    /\ nextChan = 1

BridgeNext ==
    \/ \E c \in Calls, site \in Sites : BridgeCall(c, site)
    \/ \E c \in Calls, out \in EngineOutcomes : CompletionHandler(c, out)
    \/ \E c \in Calls : Recv(c)

(* ------------------------------------------------------------------ *)
(* The length of the disk image: disk_size * 1_000_000_000 in u64      *)
(* ------------------------------------------------------------------ *)

\* 1_000_000_000 = 0x3B9ACA00, low byte first
Giga == <<0, 202, 154, 59>>

Byte(x, i) == IF i >= 1 /\ i <= Len(x) THEN x[i] ELSE 0

RECURSIVE Column(_, _, _, _)
\* the sum of the byte products that fall on byte k of a * b
Column(a, b, k, j) ==
    IF j > Len(b) THEN 0
    ELSE Byte(a, k + 1 - j) * b[j] + Column(a, b, k, j + 1)

RECURSIVE MulFrom(_, _, _, _)
MulFrom(a, b, k, carry) ==
    IF k > Len(a) + Len(b) THEN <<>>
    ELSE LET t == Column(a, b, k, 1) + carry
         IN <<t % 256>> \o MulFrom(a, b, k + 1, t \div 256)

\* the product of two numbers given as bytes, all Len(a) + Len(b) bytes of it
FullProduct(a, b) == MulFrom(a, b, 1, 0)

\* u64 multiplication that wraps: the low eight bytes of the product
wrapping_mul(a, b) == SubSeq(FullProduct(a, b), 1, 8)

\* the product does not fit in a u64
Overflows(a, b) == \E i \in 9..(Len(a) + Len(b)) : FullProduct(a, b)[i] /= 0

\* a u64 widened to twelve bytes
Widen(x) == x \o <<0, 0, 0, 0>>

\* the bytes the runs draw the argument from
SizeBytes == {0, 50, 255}

\* 18_446_744_073 = 0x44B82FA09, the last disk_size whose product fits in a u64
LastFitting == <<9, 250, 130, 75, 4, 0, 0, 0>>

\* 18_446_744_074 = 0x44B82FA0A
FirstOverflowing == <<10, 250, 130, 75, 4, 0, 0, 0>>

\* the --disk-size values of the runs
SizeArgs == [1..8 -> SizeBytes] \cup {LastFitting, FirstOverflowing}

\* Create::execute line 60: temp_dir.resize(self.disk_size * 1_000_000_000)?
\* a build with overflow checks panics on a product that does not fit, a build
\* without them wraps
SizeDisk ==
    /\ dpc = "start"
    /\ IF Overflows(sizeArg, Giga) /\ build = "checked"
       THEN /\ dpc' = "panicked"
            /\ UNCHANGED setLen
       ELSE /\ dpc' = "sized"
            /\ setLen' = wrapping_mul(sizeArg, Giga)
    /\ UNCHANGED <<sizeArg, build, createVars, stopVars, cliVars, listVars, bridgeVars>>

\* Create::execute line 72: the create returns
SizeReturn ==
    /\ dpc = "sized"
    /\ dpc' = "done"
    /\ UNCHANGED <<sizeArg, build, setLen, createVars, stopVars, cliVars, listVars, bridgeVars>>

\* no create of this part runs
DiskIdle ==
    /\ sizeArg = <<50, 0, 0, 0, 0, 0, 0, 0>>
    /\ build = "checked"
    /\ dpc = "idle"
    /\ setLen = <<0, 0, 0, 0, 0, 0, 0, 0>>

DiskNext ==
    \/ SizeDisk
    \/ SizeReturn

(* ------------------------------------------------------------------ *)
(* Specifications                                                      *)
(* ------------------------------------------------------------------ *)

\* none of the other commands runs
ToolsIdle == CliIdle /\ ListIdle /\ BridgeIdle /\ DiskIdle

\* the create processes alone, beside a supervisor that takes no step
Init == CreateInit /\ StopInit /\ coopCapable /\ ToolsIdle

Next == CreateNext

Spec == Init /\ [][Next]_vars

\* the supervising process alone, over an empty home directory
SupervisorInit == CreateInit /\ StopInit /\ ToolsIdle

StopSpec == SupervisorInit /\ [][StopNext]_vars

\* the main queue runs a block that is due, time passes, and the engine delivers
\* the completion of a stop it accepted
StopFairSpec ==
    /\ StopSpec
    /\ WF_vars(Tick)
    /\ WF_vars(TimerFire)
    /\ WF_vars(\E err \in BOOLEAN : StopCompletion(err))

\* the home directory with the vm of the supervisor in it; the other name is a vm
\* or is unused
HomeWithVm ==
    /\ \E d \in {NoDir, LinuxVm(2, 10)} :
          dirs = [n \in Names |-> IF n = RunName THEN LinuxVm(1, 50) ELSE d]
    /\ tmps = [t \in TempIds |-> NoDir]
    /\ nextTemp = 1
    /\ pc = [p \in Procs |-> "idle"]
    /\ cargs = [p \in Procs |-> NoArgs]
    /\ temp = [p \in Procs |-> 0]
    /\ result = [p \in Procs |-> NoResult]
    /\ image = [p \in Procs |-> NoImage]
    /\ existedAtStart = [p \in Procs |-> FALSE]

StopCliInit == HomeWithVm /\ StopInit /\ ToolsIdle

\* the stop command beside the supervising process of the vm it names
StopCliSpec == StopCliInit /\ [][StopCliNext]_vars

\* the thread of the stop command runs, the supervisor's signal handler runs, and
\* the main queue and the engine do as in StopFairSpec
StopCliFairSpec ==
    /\ StopCliSpec
    /\ WF_vars(StopSleep)
    /\ WF_vars(StopPoll)
    /\ WF_vars(\E err \in BOOLEAN : SigintHandler(err))
    /\ WF_vars(Tick)
    /\ WF_vars(TimerFire)
    /\ WF_vars(\E err \in BOOLEAN : StopCompletion(err))

\* the list command is started over a home directory of any contents
ListInit ==
    /\ CreateInit /\ StopInit /\ coopCapable
    /\ CliIdle /\ BridgeIdle /\ DiskIdle
    /\ homeExists \in BOOLEAN
    /\ home \in [ListEntries -> EntryKinds]
    /\ ~homeExists => home = [e \in ListEntries |-> NoEntry]
    /\ lpc = "idle"
    /\ unread = {}
    /\ rows = {}
    /\ lresult = NoResult

\* one run of the list command
ListSpec == ListInit /\ [][ListNext]_vars

BridgeInit == CreateInit /\ StopInit /\ coopCapable /\ CliIdle /\ ListIdle /\ BridgeIdle /\ DiskIdle

\* the bridged calls of MaxCalls runs of create and of the image-discovery command
BridgeSpec == BridgeInit /\ [][BridgeNext]_vars

\* a create is started with any --disk-size, in a build of either kind
DiskInit ==
    /\ CreateInit /\ StopInit /\ coopCapable
    /\ CliIdle /\ ListIdle /\ BridgeIdle
    /\ sizeArg \in SizeArgs
    /\ build \in {"checked", "unchecked"}
    /\ dpc = "start"
    /\ setLen = <<0, 0, 0, 0, 0, 0, 0, 0>>

\* the sizing of the disk image by one create
DiskSpec == DiskInit /\ [][DiskNext]_vars

(* ------------------------------------------------------------------ *)
(* Claims about create                                                 *)
(* ------------------------------------------------------------------ *)

Ended == {"failed", "interrupted", "panicked"}

\* every file creation needs is in the directory
FullyWritten(d) == d.disk /\ d.nvram /= "none" /\ d.config /= NoConfig

\* C1: a directory exists at the final path of a name only if disk, firmware store
\* and config are all written in it, and a create that failed or was interrupted
\* has made no directory visible: what it built, if anything, is still a
\* temporary directory.
C1_AtomicCreate ==
    /\ \A n \in Names : dirs[n].exists => FullyWritten(dirs[n])
    /\ \A p \in Procs : pc[p] \in Ended /\ temp[p] /= 0 =>
          /\ \A n \in Names : dirs[n].inode /= temp[p]
          /\ tmps[temp[p]].exists

\* a create interrupted after the disk resize and before the config save, beside a
\* create that completed
C1_Witness ==
    \E p, q \in Procs :
        /\ pc[p] = "interrupted" /\ temp[p] /= 0
        /\ tmps[temp[p]].disk /\ tmps[temp[p]].config = NoConfig
        /\ ~dirs[vm_dir(cargs[p].name)].exists
        /\ pc[q] = "done" /\ dirs[vm_dir(cargs[q].name)].exists

\* C2: a create(n) started after a create(n) completed gets no further than the
\* check of the name, returns ValidationError, and none of its steps changes the
\* home directory (so the first vm's config, disk and firmware store stay as they were).
C2_SecondCreateRejected ==
    /\ [](\A p \in Procs : existedAtStart[p] =>
            /\ pc[p] \in {"check", "failed", "interrupted"}
            /\ temp[p] = 0
            /\ pc[p] = "failed" => result[p].kind = "ValidationError")
    /\ [][\A p \in Procs : existedAtStart'[p] /\ pc'[p] /= pc[p] =>
            dirs' = dirs /\ tmps' = tmps]_vars

\* the second create of a name has been rejected and the vm of the first is there
C2_Witness ==
    \E p, q \in Procs :
        /\ p /= q
        /\ pc[q] = "done" /\ cargs[q].name = cargs[p].name
        /\ existedAtStart[p]
        /\ result[p] = Err("ValidationError", "already_exists")
        /\ initialized(dirs[vm_dir(cargs[p].name)])

RejectedBeforeMutation == {"ipsw_required", "ipsw_not_found", "already_exists"}

\* C4: a macOS create without a restore image path, or with one that does not
\* exist, and a create of an initialized name, return ValidationError with no
\* temporary directory allocated, and the step that rejects changes nothing in the
\* home directory; a Linux create is never rejected for its restore image.
C4_RejectedBeforeMutation ==
    /\ [](\A p \in Procs :
            /\ (pc[p] /= "idle" /\ cargs[p].os = "MacOs" /\ cargs[p].ipsw \in {"None", "Missing"})
                  => pc[p] = "failed" /\ result[p].kind = "ValidationError" /\ temp[p] = 0
            /\ result[p].why \in RejectedBeforeMutation
                  => result[p].kind = "ValidationError" /\ temp[p] = 0
            /\ cargs[p].os = "Linux" => result[p].why \notin {"ipsw_required", "ipsw_not_found"})
    /\ [][\A p \in Procs :
            result'[p] /= result[p] /\ result'[p].why \in RejectedBeforeMutation =>
                dirs' = dirs /\ tmps' = tmps /\ nextTemp' = nextTemp]_vars

\* a macOS create rejected for its missing restore image, beside a Linux create
\* given none that completed
C4_Witness ==
    \E p, q \in Procs :
        /\ result[p] = Err("ValidationError", "ipsw_required") /\ temp[p] = 0
        /\ pc[q] = "done" /\ cargs[q].os = "Linux" /\ cargs[q].ipsw = "None"

(* ------------------------------------------------------------------ *)
(* Claims about the stop escalation                                    *)
(* ------------------------------------------------------------------ *)

\* C5: stopWithCompletionHandler is called only in a stop_vm whose request for a
\* cooperative stop the engine does not support, and then no block is queued, or
\* when a queued block runs, and that block has then been queued for at least
\* TimeoutSecs units of time.
C5_ForcedStopCauses ==
    [][forceIssued' /= forceIssued =>
          \/ /\ stops' = stops + 1
             /\ ~canRequestStop
             /\ timers' = timers
          \/ /\ stops' = stops
             /\ timers /= <<>>
             /\ timers' = Tail(timers)
             /\ Head(timers).age >= TimeoutSecs]_vars

\* the guest was asked to stop, never answered, and the block that ran after the
\* delay issued the forced stop
C5_Witness ==
    /\ coopCapable /\ stops = 1 /\ guestStops = 0
    /\ timers = <<>> /\ forceIssued = 1 /\ stopPending

\* C6: once stop_vm has been invoked the supervising process exits, whether or not
\* the guest ever answers the request, given that time passes, that a block that is
\* due runs and that the engine delivers the completion of a stop it accepted.
C6_BoundedShutdown == (stops > 0) ~> (proc = "exited")

\* the guest never answered and the process exited on the completion of the forced stop
C6_Witness ==
    /\ coopCapable /\ stops > 0 /\ guestStops = 0
    /\ proc = "exited" /\ exitCause = "force_stopped"

\* C7: after guestDidStopVirtualMachine has been observed no queued block runs
\* force_stop_vm, no forced stop is issued and the exit status stays as it is; if
\* it was observed while every block queued was still waiting, no forced stop was
\* issued in the run at all.
C7_GuestStopWins ==
    /\ [](guestStops > 0 /\ Len(timers) = stops => forceIssued = 0)
    /\ [][guestStops > 0 =>
            UNCHANGED <<forceSteps, forceIssued, proc, exitCode, exitCause, exitCount>>]_vars

\* the guest stopped before the delay was over, and the delay has since run out
C7_Witness ==
    /\ guestStops > 0 /\ exitCause = "guest_stopped"
    /\ timers /= <<>> /\ Head(timers).left = 0 /\ Head(timers).age = TimeoutSecs
    /\ forceSteps = 0 /\ forceIssued = 0

\* C8: in a run stopWithCompletionHandler is called at most once and process::exit
\* at most once, however many times stop_vm is invoked.
C8_TerminalActionsOnce == forceIssued <= 1 /\ exitCount <= 1

\* stop_vm was invoked twice, force_stop_vm ran twice, and one forced stop was issued
C8_Witness ==
    /\ stops >= 2 /\ forceSteps >= 2
    /\ forceIssued = 1 /\ exitCount = 1

\* C9 as stated: when the guest was asked to stop, the delay ran out and a forced
\* stop is outstanding, a guestDidStopVirtualMachine delivered then changes
\* nothing: the process goes on to the completion of the forced stop.
C9_LateGuestStopIsNoOp ==
    [][guestStops' /= guestStops /\ coopCapable /\ stopPending =>
          UNCHANGED <<proc, exitCode, exitCause, exitCount, stopPending>>]_vars

\* C9 amended: a guestDidStopVirtualMachine delivered while a forced stop is
\* outstanding is not an error, and it is not ignored either: it ends the process
\* at once with status 0, and the completion of the forced stop is never handled.
C9_LateGuestStopExitsZero ==
    /\ [][guestStops' /= guestStops /\ coopCapable /\ stopPending =>
            /\ proc' = "exited" /\ exitCode' = 0
            /\ forceIssued' = forceIssued /\ stopPending' = stopPending]_vars
    /\ [](exitCause = "guest_stopped" => proc = "exited" /\ exitCode = 0)

\* the delay ran out, the forced stop was issued, and the guest stopped before the
\* completion of the forced stop came
C9_Witness ==
    /\ coopCapable /\ forceIssued = 1 /\ stopPending
    /\ guestStops = 1 /\ exitCause = "guest_stopped"

\* C10: when force_stop_vm runs and the engine reports that the guest cannot be
\* stopped, no forced stop is issued and the process exits with status 1.
C10_NotStoppableFails ==
    [][forceSteps' /= forceSteps /\ ~canStop =>
          /\ forceIssued' = forceIssued
          /\ stopPending' = stopPending
          /\ proc' = "exited"
          /\ exitCode' = 1]_vars

\* force_stop_vm found the guest not stoppable and ended the process
C10_Witness ==
    /\ exitCause = "not_stoppable" /\ exitCode = 1
    /\ forceSteps > forceIssued

\* C11: the process exits with status 0 when the guest reports that it stopped and
\* when a forced stop completes without error, and with a status other than 0 on
\* every other exit; a status of 0 is given only when the guest is stopped.
C11_ExitStatus ==
    /\ [][guestStops' /= guestStops => proc' = "exited" /\ exitCode' = 0]_vars
    /\ [][stopPending /\ ~stopPending' =>
            /\ proc' = "exited"
            /\ exitCode' = IF vmState' = "stopped" THEN 0 ELSE 1]_vars
    /\ [](proc = "exited" =>
            /\ exitCode = 0 <=> exitCause \in {"guest_stopped", "force_stopped"}
            /\ exitCode = 0 => vmState = "stopped"
            /\ exitCode /= 0 => exitCode = 1)

\* a guest that cannot be asked to stop was stopped by force and the process exited
\* with status 0
C11_Witness ==
    /\ ~coopCapable /\ stops = 1 /\ forceIssued = 1 /\ ~stopPending
    /\ proc = "exited" /\ exitCode = 0 /\ vmState = "stopped"

EscalationStep ==
    \/ stops' /= stops
    \/ forceSteps' /= forceSteps
    \/ stopPending /\ ~stopPending'

\* C12 as stated: a step of the escalation that ends the process with a failure
\* status is a force_stop_vm that found the guest not stoppable or the completion
\* of a forced stop that failed.
C12_OnlyTwoFatalEvents ==
    [][EscalationStep /\ proc' /= proc /\ exitCode' /= 0 =>
          exitCause' \in {"not_stoppable", "force_stop_failed"}]_vars

\* C12 amended: a step of the escalation ends the process with a failure status
\* only when the engine refuses the request for a cooperative stop, when
\* force_stop_vm finds the guest not stoppable, or when a forced stop fails; a
\* queued block that runs while the guest can be stopped issues the forced stop
\* and ends nothing.
C12_ThreeFatalEvents ==
    /\ [][EscalationStep /\ proc' /= proc /\ exitCode' /= 0 =>
            \/ stops' /= stops /\ canRequestStop /\ forceSteps' = forceSteps
            \/ forceSteps' /= forceSteps /\ ~canStop
            \/ stopPending /\ ~stopPending' /\ vmState' /= "stopped"]_vars
    /\ [][timers /= <<>> /\ timers' = Tail(timers) /\ canStop =>
            /\ proc' = "alive"
            /\ forceIssued' = forceIssued + 1
            /\ stopPending']_vars

\* the request for a cooperative stop was refused and the process exited with 1
\* with nothing queued and no forced stop tried
C12_Witness ==
    /\ exitCause = "request_stop_failed" /\ exitCode = 1
    /\ stops = 1 /\ timers = <<>> /\ forceSteps = 0

(* ------------------------------------------------------------------ *)
(* Claims about the stop command                                       *)
(* ------------------------------------------------------------------ *)

\* C13: when the stop command asks for the pid of an initialized vm and gets none
\* (the marker is absent, or the process it records is gone), it returns the
\* "not running" error in that step: it has sent no signal, has not slept and
\* has not entered the loop of wait_until_stopped.
C13_NotRunningFailsAtOnce ==
    /\ [][cpc = "pid" /\ cpc' /= cpc /\ ~pid(sname) =>
            /\ cpc' = "failed"
            /\ sresult' = StopErr("not_running")
            /\ UNCHANGED <<signals, sleeps, attempts, stopVars>>]_vars
    /\ [](sresult = StopErr("not_running") =>
            /\ initialized(dirs[vm_dir(sname)])
            /\ signals = 0 /\ sleeps = 0 /\ attempts = 0
            /\ stops = 0)

\* the marker of the vm is there but the supervisor has exited, and the stop
\* command has failed with "not running"
C13_Witness ==
    /\ sname = RunName /\ pidFile /\ proc = "exited"
    /\ cpc = "failed" /\ sresult = StopErr("not_running")
    /\ signals = 0 /\ sleeps = 0

\* C14: once the stop command has sent its signal it returns: it sleeps before
\* every poll, polls at most MaxAttempts times, returns Ok at the first poll that
\* finds no pid, and returns the "failed to stop" error when the poll numbered
\* MaxAttempts still finds one.
C14_PollTerminates ==
    /\ (signals > 0) ~> (cpc \in {"ok", "failed"})
    /\ [](signals > 0 =>
            /\ attempts <= MaxAttempts /\ sleeps <= MaxAttempts
            /\ cpc = "sleep" => sleeps = attempts /\ attempts < MaxAttempts
            /\ cpc = "poll" => sleeps = attempts + 1
            /\ cpc = "ok" => sleeps = attempts + 1
            /\ cpc = "failed" => sresult = StopErr("failed_to_stop")
                                   /\ attempts = MaxAttempts /\ sleeps = MaxAttempts)
    /\ [][cpc = "poll" /\ cpc' /= cpc =>
            IF ~pid(sname)
            THEN cpc' = "ok" /\ sresult' = Ok /\ attempts' = attempts
            ELSE /\ attempts' = attempts + 1
                 /\ cpc' = IF attempts + 1 = MaxAttempts THEN "failed" ELSE "sleep"]_vars

\* the supervisor was still alive at every poll and the stop command gave up
C14_Witness ==
    /\ cpc = "failed" /\ sresult = StopErr("failed_to_stop")
    /\ attempts = MaxAttempts /\ sleeps = MaxAttempts /\ proc = "alive"

\* C15: the stop command calls kill at most once, and only after it found the vm
\* initialized and got a pid; a step it takes while it polls or gives up changes
\* nothing of the supervising process and sends nothing; and after the stop
\* command has given up the escalation in the supervisor still runs to the exit of
\* the process.
C15_OneSignalOnly ==
    /\ [](signals <= 1)
    /\ [][signals' /= signals =>
            /\ signals = 0 /\ havePid
            /\ initialized(dirs[vm_dir(sname)])
            /\ UNCHANGED stopVars]_vars
    /\ [][(cpc \in {"sleep", "poll"}) /\ cpc' /= cpc =>
            UNCHANGED <<stopVars, signals, pidFile>>]_vars
    /\ [][(cpc \in {"ok", "failed"}) => UNCHANGED <<cpc, signals, sresult>>]_vars
    /\ (sresult = StopErr("failed_to_stop")) ~> (proc = "exited")

\* the stop command gave up while the guest had been asked to stop, and the
\* supervisor has since stopped the guest by force and exited with 0
C15_Witness ==
    /\ sresult = StopErr("failed_to_stop") /\ signals = 1 /\ stops = 1
    /\ proc = "exited" /\ exitCause = "force_stopped" /\ coopCapable

(* ------------------------------------------------------------------ *)
(* Claims about the list command                                       *)
(* ------------------------------------------------------------------ *)

\* the entry is a vm directory with a config that loads and a disk image
WellFormedVm(e) ==
    /\ home[e].is_dir /\ initialized(home[e].dir)
    /\ home[e].dir.config /= MalformedConfig /\ home[e].dir.disk

Reported(e) == \E r \in rows : r.name = e

\* C16: whatever the home directory holds, the list command does not return an
\* error because of an entry: an entry whose config does not deserialize or whose
\* disk image is missing is skipped, and every other vm is still reported.
C16_ListNeverFailsPerEntry ==
    lpc = "returned" /\ homeExists =>
        /\ lresult = Ok
        /\ \A e \in ListEntries : WellFormedVm(e) => Reported(e)

\* C17: when the list command has returned, the entries it printed a row for are
\* the directories that are initialized, and the status of a row is "running" when
\* the liveness query gave a pid and "stopped" when it gave none.
C17_RowIffInitialized ==
    lpc = "returned" /\ homeExists =>
        \A e \in ListEntries :
            /\ Reported(e) <=> (home[e].is_dir /\ initialized(home[e].dir))
            /\ \A r \in rows : r.name = e =>
                  r.status = IF home[e].running THEN "running" ELSE "stopped"

(* ------------------------------------------------------------------ *)
(* Claims about the persisted config                                   *)
(* ------------------------------------------------------------------ *)

\* the field group of the os tag is set and the other is absent
OneFieldGroup(c) ==
    \/ /\ c.os = "Linux"
       /\ c.rosetta /= "None"
       /\ c.hardware_model = "None" /\ c.machine_identifier = "None"
    \/ /\ c.os = "MacOs"
       /\ c.rosetta = "None"
       /\ c.hardware_model /= "None" /\ c.machine_identifier /= "None"

\* C18: every config create has saved, in a temporary directory or in a final
\* one, has the os tag the command line asked for and exactly the field group of
\* that tag: rosetta for Linux; hardware_model and machine_identifier for macOS.
C18_OneFieldGroup ==
    /\ \A n \in Names : dirs[n].config /= NoConfig => OneFieldGroup(dirs[n].config)
    /\ \A t \in TempIds : tmps[t].config /= NoConfig => OneFieldGroup(tmps[t].config)
    /\ \A p \in Procs : temp[p] /= 0 /\ tmps[temp[p]].config /= NoConfig =>
          tmps[temp[p]].config.os = cargs[p].os

\* a Linux vm and a macOS vm have both been created
C18_Witness ==
    \E n, k \in Names :
        /\ initialized(dirs[n]) /\ dirs[n].config.os = "Linux"
        /\ initialized(dirs[k]) /\ dirs[k].config.os = "MacOs"
        /\ dirs[k].config.hardware_model = "hm2"

(* ------------------------------------------------------------------ *)
(* Claims about the bridged engine calls                               *)
(* ------------------------------------------------------------------ *)

\* C19: every bridged call has a channel of its own; on a channel at most one
\* message is ever sent, and it is sent by the completion handler of the call the
\* channel belongs to; a call returns only after its completion handler has run
\* and its one message was received; and what the call returns is the error the
\* handler was given, or else the value it was given.
C19_OneShotBridge ==
    /\ [](\A c, d \in Calls :
            c /= d /\ calls[c].pc /= "idle" /\ calls[d].pc /= "idle" =>
                calls[c].chan /= calls[d].chan)
    /\ [](\A ch \in ChanIds : chanSent[ch] <= 1)
    /\ [](\A c \in Calls : calls[c].pc = "returned" =>
            /\ calls[c].outcome /= NoOutcome
            /\ chanSent[calls[c].chan] = 1 /\ chanQ[calls[c].chan] = <<>>
            /\ calls[c].result =
                 IF calls[c].outcome.error /= "null"
                 THEN [kind |-> "Err", val |-> calls[c].outcome.error]
                 ELSE [kind |-> "Ok", val |-> calls[c].outcome.value])
    /\ [][\A ch \in ChanIds : chanSent'[ch] /= chanSent[ch] =>
            \E c \in Calls : /\ calls[c].chan = ch /\ calls[c].pc = "waiting"
                             /\ calls[c].outcome = NoOutcome
                             /\ calls'[c].outcome /= NoOutcome]_vars

\* three calls were made: one returned the value, one returned the error, and one
\* is still blocked with its completion handler not yet run
C19_Witness ==
    \E c, d, e \in Calls :
        /\ calls[c].pc = "returned" /\ calls[c].result = [kind |-> "Ok", val |-> "v1"]
        /\ calls[c].site = "loadFileURL"
        /\ calls[d].pc = "returned" /\ calls[d].result = [kind |-> "Err", val |-> "e1"]
        /\ calls[d].site = "fetchLatestSupported"
        /\ calls[e].pc = "waiting" /\ calls[e].outcome = NoOutcome

(* ------------------------------------------------------------------ *)
(* Claims about the size of the disk image                             *)
(* ------------------------------------------------------------------ *)

\* 50_000_000_000 = 0xBA43B7400, low byte first
FiftyGB == <<0, 116, 59, 164, 11, 0, 0, 0>>

\* C20: for every --disk-size the length create gives the disk image is
\* disk_size * 1_000_000_000 exactly; for 50 that is 50_000_000_000.
C20_ExactDiskLength ==
    dpc \in {"sized", "done"} =>
        /\ Widen(setLen) = FullProduct(sizeArg, Giga)
        /\ sizeArg = <<50, 0, 0, 0, 0, 0, 0, 0>> => setLen = FiftyGB

====
